---------------------------- MODULE Spec2Model ----------------------------
(***************************************************************************)
(* A model of the stream output engine of jsoniter-go: the two output      *)
(* sinks (bufferedStream, unbufferedStream), the Stream facade with its    *)
(* indentation counter and sticky Error field, and the table-driven        *)
(* integer encoder of stream_int.go.                                       *)
(*                                                                         *)
(* Bytes are the integers 0..255.  A fixed-width machine integer is the    *)
(* little-endian sequence of its bytes (uint8: 1 byte, ..., uint64: 8      *)
(* bytes; a signed integer is its two's-complement bit pattern), so every  *)
(* arithmetic step of the encoder is carried out modulo 2^w.               *)
(***************************************************************************)
EXTENDS Integers, Sequences, FiniteSets, TLC

(***************************************************************************)
(* Bounds of the model.                                                    *)
(***************************************************************************)
\* Largest number of bytes issued to a Stream in one behaviour.
MaxIssued == 7
\* The same for a Stream bound to a limited writer, and the largest number of
\* bytes such a writer receives.
MaxIssuedLimited == 5
\* Longest argument of a bulk Write / WriteRaw / SetBuffer.
MaxLen == 2
\* Largest number of bytes a limited writer is set to accept before failing.
MaxQuota == 1
\* Largest indentation step the configuration supplies.
MaxStep == 2
\* The integers the integer specification writes, in every width: 0 to
\* MaxSample, and the edges of the encoders' branches (see Inputs).
MaxSample == 300
\* Largest number of Reset and SetBuffer calls in one behaviour.
MaxReuse == 1
\* Largest number of facade tokens in one behaviour of the nesting
\* specification.
MaxTokens == 7
\* Largest number of facade tokens in one behaviour of the paired
\* specification.
MaxPair == 3
\* Bytes issued after which a short behaviour starts no further write.
MaxShort == 1

(***************************************************************************)
(* Sequence helpers (Go slice expressions).                                *)
(***************************************************************************)
\* s[:n]
Take(s, n) == SubSeq(s, 1, n)
\* s[n:]
Drop(s, n) == SubSeq(s, n + 1, Len(s))

Min(a, b) == IF a < b THEN a ELSE b

IsPrefix(s, t) == Len(s) <= Len(t) /\ Take(t, Len(s)) = s

(***************************************************************************)
(* Fixed-width unsigned arithmetic on little-endian byte sequences.        *)
(***************************************************************************)
\* The value 0 of the same width as v.
Zero(n) == [i \in 1..n |-> 0]

IsZero(v) == \A i \in 1..Len(v) : v[i] = 0

\* uintW(k) for a natural k that fits the model checker's integers.
RECURSIVE FromNat(_, _)
FromNat(k, n) == IF n = 0 THEN <<>> ELSE <<k % 256>> \o FromNat(k \div 256, n - 1)

\* int(v) for a v whose value is below 2^16 (an index into the digit table).
Small(v) == IF \A i \in 3..Len(v) : v[i] = 0
            THEN v[1] + (IF Len(v) > 1 THEN 256 * v[2] ELSE 0)
            ELSE 65536

\* v / d, the quotient of the long division of v by a small d; rem is the
\* remainder carried in from the more significant bytes.
RECURSIVE DivRem(_, _, _)
DivRem(v, d, rem) ==
    IF v = <<>> THEN <<>>
    ELSE LET n   == Len(v)
             cur == rem * 256 + v[n]
         IN  DivRem(Take(v, n - 1), d, cur % d) \o <<cur \div d>>

Div(v, d) == DivRem(v, d, 0)

\* v % d for a small d.
RECURSIVE Mod(_, _)
Mod(v, d) == IF v = <<>> THEN 0
             ELSE (Mod(Drop(v, 1), d) * 256 + v[1]) % d

\* v * m + carry modulo 2^w, for small m and carry.
RECURSIVE MulAdd(_, _, _)
MulAdd(v, m, carry) ==
    IF v = <<>> THEN <<>>
    ELSE LET cur == v[1] * m + carry
         IN  <<cur % 256>> \o MulAdd(Drop(v, 1), m, cur \div 256)

Mul(v, m) == MulAdd(v, m, 0)

AddSmall(v, k) == MulAdd(v, 1, k)

\* a - b modulo 2^w.
RECURSIVE SubBorrow(_, _, _)
SubBorrow(a, b, borrow) ==
    IF a = <<>> THEN <<>>
    ELSE LET cur == a[1] - b[1] - borrow
         IN  <<cur % 256>> \o SubBorrow(Drop(a, 1), Drop(b, 1), IF cur < 0 THEN 1 ELSE 0)

Sub(a, b) == SubBorrow(a, b, 0)

\* -v modulo 2^w (two's-complement negation in the operand's own width).
Neg(v) == Sub(Zero(Len(v)), v)

\* nval < 0 for a signed integer given as its bit pattern.
IsNegative(v) == v[Len(v)] >= 128


(***************************************************************************)
(* Values.                                                                 *)
(***************************************************************************)
\* A nil io.Writer / a nil error.
Nil == "nil"
\* The underlying writers a sink can be bound to.  "w1" accepts every byte
\* it is handed; "w2" is a limited writer (it accepts what its quota allows
\* and then fails) and has a Flush method (it satisfies Flusher).
Writers == {"w1", "w2"}
Reliable(w) == w = "w1"
IsFlusher(w) == w = "w2"
\* The error an underlying writer returns, and the error an encoder stores
\* in Stream.Error.
ErrWriter == "io error"
ErrEncoder == "encoder error"
\* The argument of a bulk or fixed write of n bytes: since the sinks never
\* look at the bytes they carry, the k-th byte issued to a Stream by such a
\* write is the byte 128 + k, so that a byte lost, repeated or out of order
\* shows in what the writer receives.
Fresh(k, n) == [i \in 1..n |-> 128 + k + i]
\* The buffers SetBuffer is given.
Buffers == {<<>>, <<120>>}

(***************************************************************************)
(* The state of one Stream with its sink and the writers around it, as a   *)
(* record x:                                                               *)
(*   kind       which sink NewStream / NewUnbufferedStream installed       *)
(*   step       cfg.indentionStep                                          *)
(*   out, buf   the sink's fields (buf stays empty in unbufferedStream)    *)
(*   arr        unbufferedStream's scratch array                           *)
(*   Error, indention   the Stream's fields                                *)
(*   recv, quota   per writer: the bytes it has accepted, the bytes a      *)
(*              limited writer still accepts                               *)
(*   issued     history: every byte handed to the sink's write methods     *)
(*   sink       the methods of the sink invoked by the operation in        *)
(*              progress                                                   *)
(*   calls      the calls made on the underlying writer by the operation   *)
(*              in progress                                                *)
(*   nn, err    the results of the last sink Write / flush                 *)
(***************************************************************************)

\* io.Writer.Write(p) on the bound writer: a reliable writer accepts all of
\* p; a limited writer accepts what its quota allows and fails when that is
\* less than p, or when the quota was already used up.
OutWrite(x, p) ==
    LET w == x.out
        k == IF Reliable(w) THEN Len(p) ELSE Min(Len(p), x.quota[w])
        e == IF ~Reliable(w) /\ (k < Len(p) \/ x.quota[w] = 0)
             THEN ErrWriter ELSE Nil
    IN  [x EXCEPT !.recv[w]  = @ \o Take(p, k),
                  !.quota[w] = IF Reliable(w) THEN @ ELSE @ - k,
                  !.calls    = Append(@, [op |-> "Write", p |-> p]),
                  !.nn       = k,
                  !.err      = e]

\* Flusher.Flush() on the bound writer.
OutFlush(x) ==
    LET w == x.out
    IN  [x EXCEPT !.calls = Append(@, [op |-> "Flush", p |-> <<>>]),
                  !.err   = IF ~Reliable(w) /\ x.quota[w] = 0
                            THEN ErrWriter ELSE Nil]

(***************************************************************************)
(* bufferedStream.                                                         *)
(***************************************************************************)
bufferedStream_Reset(x, w) == [x EXCEPT !.out = w, !.buf = <<>>]

bufferedStream_Buffered(x) == Len(x.buf)

bufferedStream_Buffer(x) == x.buf

bufferedStream_SetBuffer(x, b) == [x EXCEPT !.buf = b]

\* Mutant: the bytes the writer accepted stay in the buffer.
bufferedStream_Write_keepsAll(x, p) ==
    LET a == [x EXCEPT !.buf = @ \o p]
    IN  IF a.out # Nil
        THEN OutWrite(a, a.buf)
        ELSE [a EXCEPT !.nn = Len(p), !.err = Nil]

\* Mutant: the buffer is cut by len(p) instead of the count transferred.
bufferedStream_Write_cutsByLen(x, p) ==
    LET a == [x EXCEPT !.buf = @ \o p]
    IN  IF a.out # Nil
        THEN LET b == OutWrite(a, a.buf)
             IN  [b EXCEPT !.buf = Drop(@, Len(p))]
        ELSE [a EXCEPT !.nn = Len(p), !.err = Nil]

bufferedStream_Write(x, p) ==
    LET a == [x EXCEPT !.buf = @ \o p]
    IN  IF a.out # Nil
        THEN LET b == OutWrite(a, a.buf)
             IN  [b EXCEPT !.buf = Drop(@, b.nn)]
        ELSE [a EXCEPT !.nn = Len(p), !.err = Nil]

bufferedStream_writeByte(x, c) == [x EXCEPT !.buf = Append(@, c)]

bufferedStream_writeTwoBytes(x, c1, c2) == [x EXCEPT !.buf = @ \o <<c1, c2>>]

bufferedStream_writeThreeBytes(x, c1, c2, c3) ==
    [x EXCEPT !.buf = @ \o <<c1, c2, c3>>]

bufferedStream_writeFourBytes(x, c1, c2, c3, c4) ==
    [x EXCEPT !.buf = @ \o <<c1, c2, c3, c4>>]

bufferedStream_writeFiveBytes(x, c1, c2, c3, c4, c5) ==
    [x EXCEPT !.buf = @ \o <<c1, c2, c3, c4, c5>>]

\* Mutant: flush empties the buffer of an unbound sink too.
bufferedStream_flush_drainsUnbound(x) ==
    IF x.out = Nil
    THEN [x EXCEPT !.err = Nil, !.buf = <<>>]
    ELSE LET b == OutWrite(x, x.buf)
         IN  IF b.err # Nil
             THEN b
             ELSE [b EXCEPT !.buf = <<>>]

bufferedStream_flush(x) ==
    IF x.out = Nil
    THEN [x EXCEPT !.err = Nil]
    ELSE LET b == OutWrite(x, x.buf)
         IN  IF b.err # Nil
             THEN b
             ELSE [b EXCEPT !.buf = <<>>]

bufferedStream_WriteRaw(x, s) == [x EXCEPT !.buf = @ \o s]

(***************************************************************************)
(* unbufferedStream.                                                       *)
(***************************************************************************)
unbufferedStream_Reset(x, w) == [x EXCEPT !.out = w]

unbufferedStream_Available(x) == 0

unbufferedStream_Buffered(x) == 0

\* Buffer returns nil, the empty slice (after printing a diagnostic on
\* standard output, which is no part of this state).
unbufferedStream_Buffer(x) == <<>>

unbufferedStream_SetBuffer(x, b) == x

\* Mutant: an unbound sink reports the bytes as written.
unbufferedStream_Write_reportsLen(x, p) ==
    IF x.out # Nil
    THEN OutWrite(x, p)
    ELSE [x EXCEPT !.nn = Len(p), !.err = Nil]

unbufferedStream_Write(x, p) ==
    IF x.out # Nil
    THEN OutWrite(x, p)
    ELSE [x EXCEPT !.nn = 0, !.err = Nil]

\* arr[0], ..., arr[Len(s)-1] = s
Stage(x, s) == [x EXCEPT !.arr = s \o Drop(@, Len(s))]

unbufferedStream_writeByte(x, c) ==
    LET a == Stage(x, <<c>>) IN unbufferedStream_Write(a, Take(a.arr, 1))

unbufferedStream_writeTwoBytes(x, c1, c2) ==
    LET a == Stage(x, <<c1, c2>>) IN unbufferedStream_Write(a, Take(a.arr, 2))

unbufferedStream_writeThreeBytes(x, c1, c2, c3) ==
    LET a == Stage(x, <<c1, c2, c3>>) IN unbufferedStream_Write(a, Take(a.arr, 3))

\* Mutant: the slice handed to Write is one byte short.
unbufferedStream_writeFourBytes_shortSlice(x, c1, c2, c3, c4) ==
    LET a == Stage(x, <<c1, c2, c3, c4>>) IN unbufferedStream_Write(a, Take(a.arr, 3))

unbufferedStream_writeFourBytes(x, c1, c2, c3, c4) ==
    LET a == Stage(x, <<c1, c2, c3, c4>>) IN unbufferedStream_Write(a, Take(a.arr, 4))

unbufferedStream_writeFiveBytes(x, c1, c2, c3, c4, c5) ==
    LET a == Stage(x, <<c1, c2, c3, c4, c5>>)
    IN  unbufferedStream_Write(a, Take(a.arr, 5))

unbufferedStream_flush(x) ==
    IF x.out # Nil /\ IsFlusher(x.out)
    THEN OutFlush(x)
    ELSE [x EXCEPT !.err = Nil]

unbufferedStream_WriteRaw(x, s) == unbufferedStream_Write(x, s)

(***************************************************************************)
(* internalStreamAPI: the calls of the Stream on its sink, dispatched on   *)
(* the sink installed at construction.  Invoke records the method in the   *)
(* sink field, and Issue also the bytes handed over in the history field.  *)
(***************************************************************************)
Invoke(x, m) == [x EXCEPT !.sink = Append(@, m)]

Issue(x, m, s) == [Invoke(x, m) EXCEPT !.issued = @ \o s]

Reset(x, w) ==
    Invoke(IF x.kind = "buffered" THEN bufferedStream_Reset(x, w)
           ELSE unbufferedStream_Reset(x, w), "Reset")

Buffered(x) ==
    IF x.kind = "buffered" THEN bufferedStream_Buffered(x)
    ELSE unbufferedStream_Buffered(x)

Buffer(x) ==
    IF x.kind = "buffered" THEN bufferedStream_Buffer(x)
    ELSE unbufferedStream_Buffer(x)

SetBuffer(x, b) ==
    Invoke(IF x.kind = "buffered" THEN bufferedStream_SetBuffer(x, b)
           ELSE unbufferedStream_SetBuffer(x, b), "SetBuffer")

flush(x) ==
    Invoke(IF x.kind = "buffered" THEN bufferedStream_flush(x)
           ELSE unbufferedStream_flush(x), "flush")

Write(x, p) ==
    Issue(IF x.kind = "buffered" THEN bufferedStream_Write(x, p)
          ELSE unbufferedStream_Write(x, p), "Write", p)

WriteRaw(x, s) ==
    Issue(IF x.kind = "buffered" THEN bufferedStream_WriteRaw(x, s)
          ELSE unbufferedStream_WriteRaw(x, s), "WriteRaw", s)

writeByte(x, c) ==
    Issue(IF x.kind = "buffered" THEN bufferedStream_writeByte(x, c)
          ELSE unbufferedStream_writeByte(x, c), "writeByte", <<c>>)

writeTwoBytes(x, c1, c2) ==
    Issue(IF x.kind = "buffered" THEN bufferedStream_writeTwoBytes(x, c1, c2)
          ELSE unbufferedStream_writeTwoBytes(x, c1, c2), "writeTwoBytes", <<c1, c2>>)

writeThreeBytes(x, c1, c2, c3) ==
    Issue(IF x.kind = "buffered" THEN bufferedStream_writeThreeBytes(x, c1, c2, c3)
          ELSE unbufferedStream_writeThreeBytes(x, c1, c2, c3),
          "writeThreeBytes", <<c1, c2, c3>>)

writeFourBytes(x, c1, c2, c3, c4) ==
    Issue(IF x.kind = "buffered" THEN bufferedStream_writeFourBytes(x, c1, c2, c3, c4)
          ELSE unbufferedStream_writeFourBytes(x, c1, c2, c3, c4),
          "writeFourBytes", <<c1, c2, c3, c4>>)

writeFiveBytes(x, c1, c2, c3, c4, c5) ==
    Issue(IF x.kind = "buffered"
          THEN bufferedStream_writeFiveBytes(x, c1, c2, c3, c4, c5)
          ELSE unbufferedStream_writeFiveBytes(x, c1, c2, c3, c4, c5),
          "writeFiveBytes", <<c1, c2, c3, c4, c5>>)

(***************************************************************************)
(* The digit table and the integer encoder (stream_int.go).                *)
(***************************************************************************)
\* v >> k and byte(v) on a table entry.
Shr(v, k) == v \div (2 ^ k)
ToByte(v) == v % 256

digits ==
    [i \in 0..999 |->
        ((i \div 100) + 48) * (2 ^ 16) + (((i \div 10) % 10) + 48) * (2 ^ 8)
        + (i % 10) + 48
        + (IF i < 10 THEN 2 * (2 ^ 24) ELSE IF i < 100 THEN 2 ^ 24 ELSE 0)]

writeFirstBuf(x, v) ==
    LET start == Shr(v, 24)
        a == IF start = 0
             THEN writeTwoBytes(x, ToByte(Shr(v, 16)), ToByte(Shr(v, 8)))
             ELSE IF start = 1
                  THEN writeByte(x, ToByte(Shr(v, 8)))
                  ELSE x
    IN  writeByte(a, ToByte(v))

writeBuf(x, v) ==
    writeThreeBytes(x, ToByte(Shr(v, 16)), ToByte(Shr(v, 8)), ToByte(v))

WriteUint8(x, val) == writeFirstBuf(x, digits[Small(val)])

\* Mutant: a negative nval is converted to uint8 without being negated.
WriteInt8_convertsOnly(x, nval) ==
    IF IsNegative(nval)
    THEN writeFirstBuf(writeByte(x, 45), digits[Small(nval)])
    ELSE writeFirstBuf(x, digits[Small(nval)])

WriteInt8(x, nval) ==
    IF IsNegative(nval)
    THEN writeFirstBuf(writeByte(x, 45), digits[Small(Neg(nval))])
    ELSE writeFirstBuf(x, digits[Small(nval)])

WriteUint16(x, val) ==
    LET q1 == Div(val, 1000)
        r1 == Sub(val, Mul(q1, 1000))
    IN  IF IsZero(q1)
        THEN writeFirstBuf(x, digits[Small(val)])
        ELSE writeBuf(writeFirstBuf(x, digits[Small(q1)]), digits[Small(r1)])

WriteInt16(x, nval) ==
    IF IsNegative(nval)
    THEN WriteUint16(writeByte(x, 45), Neg(nval))
    ELSE WriteUint16(x, nval)

WriteUint32(x, val) ==
    LET q1 == Div(val, 1000)
        r1 == Sub(val, Mul(q1, 1000))
        q2 == Div(q1, 1000)
        r2 == Sub(q1, Mul(q2, 1000))
        q3 == Div(q2, 1000)
        r3 == Sub(q2, Mul(q3, 1000))
    IN  IF IsZero(q1)
        THEN writeFirstBuf(x, digits[Small(val)])
        ELSE IF IsZero(q2)
        THEN writeBuf(writeFirstBuf(x, digits[Small(q1)]), digits[Small(r1)])
        ELSE LET a == IF IsZero(q3)
                      THEN writeFirstBuf(x, digits[Small(q2)])
                      ELSE writeBuf(writeByte(x, AddSmall(q2, 48)[1]),
                                    digits[Small(r3)])
             IN  writeBuf(writeBuf(a, digits[Small(r2)]), digits[Small(r1)])

WriteInt32(x, nval) ==
    IF IsNegative(nval)
    THEN WriteUint32(writeByte(x, 45), Neg(nval))
    ELSE WriteUint32(x, nval)

WriteUint64(x, val) ==
    LET q1 == Div(val, 1000)
        r1 == Sub(val, Mul(q1, 1000))
        q2 == Div(q1, 1000)
        r2 == Sub(q1, Mul(q2, 1000))
        q3 == Div(q2, 1000)
        r3 == Sub(q2, Mul(q3, 1000))
        q4 == Div(q3, 1000)
        r4 == Sub(q3, Mul(q4, 1000))
        q5 == Div(q4, 1000)
        r5 == Sub(q4, Mul(q5, 1000))
        q6 == Div(q5, 1000)
        r6 == Sub(q5, Mul(q6, 1000))
        g(a, r) == writeBuf(a, digits[Small(r)])
    IN  IF IsZero(q1)
        THEN writeFirstBuf(x, digits[Small(val)])
        ELSE IF IsZero(q2)
        THEN g(writeFirstBuf(x, digits[Small(q1)]), r1)
        ELSE IF IsZero(q3)
        THEN g(g(writeFirstBuf(x, digits[Small(q2)]), r2), r1)
        ELSE IF IsZero(q4)
        THEN g(g(g(writeFirstBuf(x, digits[Small(q3)]), r3), r2), r1)
        ELSE IF IsZero(q5)
        THEN g(g(g(g(writeFirstBuf(x, digits[Small(q4)]), r4), r3), r2), r1)
        ELSE LET a == IF IsZero(q6)
                      THEN writeFirstBuf(x, digits[Small(q5)])
                      ELSE g(writeFirstBuf(x, digits[Small(q6)]), r6)
             IN  g(g(g(g(g(a, r5), r4), r3), r2), r1)

WriteInt64(x, nval) ==
    IF IsNegative(nval)
    THEN WriteUint64(writeByte(x, 45), Neg(nval))
    ELSE WriteUint64(x, nval)

(***************************************************************************)
(* The Stream facade (stream.go).                                          *)
(***************************************************************************)
\* WriteString belongs to the string-writing collaborator: for a field name
\* that needs no escaping it writes the name between double quotes.
WriteString(x, s) == writeByte(WriteRaw(writeByte(x, 34), s), 34)

\* Mutant: Flush stores the failure of the sink in the Error field.
Stream_Flush_latchesError(x) ==
    IF x.Error # Nil
    THEN [x EXCEPT !.err = x.Error]
    ELSE LET a == flush(x) IN [a EXCEPT !.Error = a.err]

\* Mutant: Flush does not look at the Error field.
Stream_Flush_ignoresError(x) == flush(x)

Stream_Flush(x) ==
    IF x.Error # Nil
    THEN [x EXCEPT !.err = x.Error]
    ELSE flush(x)

WriteNil(x) == writeFourBytes(x, 110, 117, 108, 108)

WriteTrue(x) == writeFourBytes(x, 116, 114, 117, 101)

WriteFalse(x) == writeFiveBytes(x, 102, 97, 108, 115, 101)

WriteBool(x, val) == IF val THEN WriteTrue(x) ELSE WriteFalse(x)

\* for i := 0; i < toWrite; i++ { stream.writeByte(' ') }
RECURSIVE writeSpaces(_, _, _)
writeSpaces(x, i, toWrite) ==
    IF i < toWrite THEN writeSpaces(writeByte(x, 32), i + 1, toWrite) ELSE x

\* Mutant: the indentation ignores delta, so that a closing token is indented
\* like the contents of its container.
writeIndention_ignoresDelta(x, delta) ==
    IF x.indention = 0
    THEN x
    ELSE writeSpaces(writeByte(x, 10), 0, x.indention)

writeIndention(x, delta) ==
    IF x.indention = 0
    THEN x
    ELSE writeSpaces(writeByte(x, 10), 0, x.indention - delta)

WriteObjectStart(x) ==
    writeIndention(writeByte([x EXCEPT !.indention = @ + x.step], 123), 0)

\* Mutant: the separator after a field name is always ": ".
WriteObjectField_alwaysSpaced(x, field) ==
    writeTwoBytes(WriteString(x, field), 58, 32)

WriteObjectField(x, field) ==
    LET a == WriteString(x, field)
    IN  IF a.indention > 0 THEN writeTwoBytes(a, 58, 32) ELSE writeByte(a, 58)

WriteObjectEnd(x) ==
    LET a == writeIndention(x, x.step)
    IN  writeByte([a EXCEPT !.indention = @ - x.step], 125)

WriteEmptyObject(x) == writeByte(writeByte(x, 123), 125)

WriteMore(x) == writeIndention(writeByte(x, 44), 0)

WriteArrayStart(x) ==
    writeIndention(writeByte([x EXCEPT !.indention = @ + x.step], 91), 0)

WriteEmptyArray(x) == writeTwoBytes(x, 91, 93)

\* Mutant: the end of an array leaves the depth as it is.
WriteArrayEnd_keepsDepth(x) ==
    LET a == writeIndention(x, x.step)
    IN  writeByte(a, 93)

WriteArrayEnd(x) ==
    LET a == writeIndention(x, x.step)
    IN  writeByte([a EXCEPT !.indention = @ - x.step], 93)

(***************************************************************************)
(* The callers' protocol: a well-formed nesting of the facade's tokens.    *)
(* stack holds the open containers (innermost last); phase is what the     *)
(* grammar of JSON allows next:                                            *)
(*   "value"  a value                                                      *)
(*   "first"  just after a start: a first member or element, or the end    *)
(*   "field"  after WriteMore in an object: a field                        *)
(*   "after"  after a value in a container: WriteMore or the end           *)
(*   "done"   the top-level value is complete                              *)
(*   "free"   the caller keeps to no protocol                              *)
(* emptied records that a container was closed right after its start;      *)
(* trace is the tokens written so far.                                     *)
(***************************************************************************)
ProtoInit == [stack |-> <<>>, phase |-> "value", emptied |-> FALSE, trace |-> <<>>]

Top(pr) == IF pr.stack = <<>> THEN "none" ELSE pr.stack[Len(pr.stack)]

\* The phase after a complete value.
Completed(stack) == IF stack = <<>> THEN "done" ELSE "after"

CanValue(pr) == pr.phase = "value" \/ (pr.phase = "first" /\ Top(pr) = "arr")

CanField(pr) == pr.phase = "field" \/ (pr.phase = "first" /\ Top(pr) = "obj")

CanMore(pr) == pr.phase = "after"

CanEnd(pr, c) == pr.phase \in {"first", "after"} /\ Top(pr) = c

AfterValue(pr) == [pr EXCEPT !.phase = Completed(pr.stack)]

AfterStart(pr, c) == [pr EXCEPT !.stack = Append(@, c), !.phase = "first"]

AfterField(pr) == [pr EXCEPT !.phase = "value"]

AfterMore(pr) == [pr EXCEPT !.phase = IF Top(pr) = "obj" THEN "field" ELSE "value"]

AfterEnd(pr) ==
    LET rest == Take(pr.stack, Len(pr.stack) - 1)
    IN  [pr EXCEPT !.stack = rest, !.phase = Completed(rest),
                   !.emptied = @ \/ pr.phase = "first"]

(***************************************************************************)
(* State.                                                                  *)
(***************************************************************************)
VARIABLES
    kind, step, out, buf, arr, Error, indention,   \* the Stream and its sink
    recv, quota,                                   \* the writers
    issued, sink, calls, nn, err,                  \* history and results
    last,      \* the last operation: its name, its byte and writer arguments,
               \* and the number of bytes issued before it
    reused,    \* number of Reset and SetBuffer calls so far
    ncalls,    \* tokens written so far (nesting specification)
    proto,     \* the callers' protocol state
    twin       \* a second Stream, on the other sink (paired specification)

vars == <<kind, step, out, buf, arr, Error, indention, recv, quota,
          issued, sink, calls, nn, err, last, reused, ncalls, proto, twin>>

\* The current state as a record, and the assignment of a record to the state.
Cur ==
    [kind |-> kind, step |-> step, out |-> out, buf |-> buf, arr |-> arr,
     Error |-> Error, indention |-> indention, recv |-> recv, quota |-> quota,
     issued |-> issued, sink |-> sink, calls |-> calls,
     nn |-> nn, err |-> err]

Set(y) ==
    /\ kind' = y.kind /\ step' = y.step /\ out' = y.out /\ buf' = y.buf
    /\ arr' = y.arr /\ Error' = y.Error /\ indention' = y.indention
    /\ recv' = y.recv /\ quota' = y.quota
    /\ issued' = y.issued /\ sink' = y.sink /\ calls' = y.calls
    /\ nn' = y.nn /\ err' = y.err

\* The state is the record y (a newly constructed Stream).
Is(y) ==
    /\ kind = y.kind /\ step = y.step /\ out = y.out /\ buf = y.buf
    /\ arr = y.arr /\ Error = y.Error /\ indention = y.indention
    /\ recv = y.recv /\ quota = y.quota
    /\ issued = y.issued /\ sink = y.sink /\ calls = y.calls
    /\ nn = y.nn /\ err = y.err

\* A call starts with no call made on the writer and no result.
Begin(x) == [x EXCEPT !.sink = <<>>, !.calls = <<>>, !.nn = 0, !.err = Nil]

\* NewStream(cfg, w, _) / NewUnbufferedStream(cfg, w, _) with
\* cfg.indentionStep = s; the limited writer accepts q bytes.
NewStream(s, w, q) ==
    [kind |-> "buffered", step |-> s, out |-> w, buf |-> <<>>,
     arr |-> <<0, 0, 0, 0, 0>>, Error |-> Nil, indention |-> 0,
     recv |-> [v \in Writers |-> <<>>],
     quota |-> [v \in Writers |-> IF Reliable(v) THEN 0 ELSE q],
     issued |-> <<>>, sink |-> <<>>, calls |-> <<>>, nn |-> 0, err |-> Nil]

NewUnbufferedStream(s, w, q) ==
    [NewStream(s, w, q) EXCEPT !.kind = "unbuffered"]

NoLast == [op |-> "new", arg |-> <<>>, w |-> Nil, pre |-> 0]


\* The Stream of the unpaired specifications' twin variable: never used.
NoTwin == NewUnbufferedStream(0, Nil, 0)

\* One call of an operation of the Stream: y is the state after it; the call
\* is recorded.  Entry is the state an operation starts from.
Entry == Begin(Cur)

Call(y, name, arg, w) ==
    /\ Set(y)
    /\ last' = [op |-> name, arg |-> arg, w |-> w, pre |-> Len(issued)]

\* The bound of a behaviour: the bytes issued, and the bytes a writer has
\* received (a flush that fails can hand the same bytes over again).
InBound ==
    /\ Len(issued') <= IF out' \in Writers /\ ~Reliable(out')
                       THEN MaxIssuedLimited ELSE MaxIssued
    /\ \A w \in Writers : ~Reliable(w) => Len(recv'[w]) <= MaxIssuedLimited

Keep == UNCHANGED <<reused, ncalls, proto, twin>>

\* The field name the facade is given: "a".
FieldNames == {<<97>>}
\* The argument of the next bulk or fixed write of n bytes.
Arg(n) == Fresh(Len(issued), n)

\* WriteInt / WriteUint convert to 64 bits.
WriteInt(x, val) == WriteInt64(x, val)
WriteUint(x, val) == WriteUint64(x, val)

(***************************************************************************)
(* The operations of a Stream in any order, on either sink, bound to a     *)
(* reliable writer or to none.                                             *)
(***************************************************************************)
\* What the specifications that do not use them start with.
Unused ==
    /\ last = NoLast /\ reused = 0 /\ ncalls = 0
    /\ proto = ProtoInit /\ twin = NoTwin

Init ==
    /\ \E w \in {v \in Writers : Reliable(v)} \cup {Nil} :
          Is(NewStream(0, w, 0)) \/ Is(NewUnbufferedStream(0, w, 0))
    /\ Unused

DoWrite(p) == Call(Write(Entry, p), "Write", p, Nil) /\ InBound /\ Keep

DoWriteRaw(s) == Call(WriteRaw(Entry, s), "WriteRaw", s, Nil) /\ InBound /\ Keep

DoWriteByte(s) ==
    Call(writeByte(Entry, s[1]), "writeByte", s, Nil) /\ InBound /\ Keep

DoWriteTwoBytes(s) ==
    Call(writeTwoBytes(Entry, s[1], s[2]), "writeTwoBytes", s, Nil)
    /\ InBound /\ Keep

DoWriteThreeBytes(s) ==
    Call(writeThreeBytes(Entry, s[1], s[2], s[3]), "writeThreeBytes", s, Nil)
    /\ InBound /\ Keep

DoWriteFourBytes(s) ==
    Call(writeFourBytes(Entry, s[1], s[2], s[3], s[4]), "writeFourBytes", s, Nil)
    /\ InBound /\ Keep

DoWriteFiveBytes(s) ==
    Call(writeFiveBytes(Entry, s[1], s[2], s[3], s[4], s[5]),
         "writeFiveBytes", s, Nil)
    /\ InBound /\ Keep

DoFlush == Call(Stream_Flush(Entry), "Flush", <<>>, Nil) /\ InBound /\ Keep

DoReset(w) ==
    /\ reused < MaxReuse
    /\ Call(Reset(Entry, w), "Reset", <<>>, w)
    /\ reused' = reused + 1
    /\ UNCHANGED <<ncalls, proto, twin>>

DoSetBuffer(b) ==
    /\ reused < MaxReuse
    /\ Call(SetBuffer(Entry, b), "SetBuffer", b, Nil)
    /\ reused' = reused + 1
    /\ UNCHANGED <<ncalls, proto, twin>>

\* An encoder stores its failure in the Error field.
SetError(e) ==
    /\ Error = Nil
    /\ Error' = e
    /\ last' = [op |-> "SetError", arg |-> <<>>, w |-> Nil, pre |-> Len(issued)]
    /\ UNCHANGED <<kind, step, out, buf, arr, indention, recv, quota,
                   issued, sink, calls, nn, err>>
    /\ Keep

\* The bound writer, a limited one that has used up its quota, comes to
\* accept n more bytes (space is freed, a peer reads on).
WriterRecovers(n) ==
    /\ out # Nil
    /\ ~Reliable(out)
    /\ quota[out] = 0
    /\ quota' = [quota EXCEPT ![out] = n]
    /\ last' = [op |-> "WriterRecovers", arg |-> <<>>, w |-> out, pre |-> Len(issued)]
    /\ UNCHANGED <<kind, step, out, buf, arr, Error, indention, recv,
                   issued, sink, calls, nn, err>>
    /\ Keep

DoWriteNil == Call(WriteNil(Entry), "WriteNil", <<>>, Nil) /\ InBound /\ Keep

DoWriteEmptyObject ==
    Call(WriteEmptyObject(Entry), "WriteEmptyObject", <<>>, Nil) /\ InBound /\ Keep

DoWriteUint8(v) == Call(WriteUint8(Entry, v), "WriteUint8", v, Nil) /\ Keep

DoWriteInt8(v) == Call(WriteInt8(Entry, v), "WriteInt8", v, Nil) /\ Keep

DoWriteUint16(v) == Call(WriteUint16(Entry, v), "WriteUint16", v, Nil) /\ Keep

DoWriteInt16(v) == Call(WriteInt16(Entry, v), "WriteInt16", v, Nil) /\ Keep

DoWriteUint32(v) == Call(WriteUint32(Entry, v), "WriteUint32", v, Nil) /\ Keep

DoWriteInt32(v) == Call(WriteInt32(Entry, v), "WriteInt32", v, Nil) /\ Keep

DoWriteUint64(v) == Call(WriteUint64(Entry, v), "WriteUint64", v, Nil) /\ Keep

DoWriteInt64(v) == Call(WriteInt64(Entry, v), "WriteInt64", v, Nil) /\ Keep

Next ==
    \/ \E n \in 0..MaxLen : DoWrite(Arg(n))
    \/ \E n \in 0..MaxLen : DoWriteRaw(Arg(n))
    \/ DoWriteByte(Arg(1))
    \/ DoWriteTwoBytes(Arg(2))
    \/ DoWriteThreeBytes(Arg(3))
    \/ DoWriteFourBytes(Arg(4))
    \/ DoWriteFiveBytes(Arg(5))
    \/ DoFlush
    \/ SetError(ErrEncoder)
    \/ DoWriteNil
    \/ DoWriteEmptyObject
    \/ \E v \in {Neg(FromNat(3, 1))} : DoWriteInt8(v) /\ InBound

Spec == Init /\ [][Next]_vars

(***************************************************************************)
(* The same operations on a Stream bound to a limited writer, which        *)
(* accepts a part of what it is handed and fails, and recovers.            *)
(***************************************************************************)
InitLimited ==
    /\ \E w \in {v \in Writers : ~Reliable(v)}, q \in 0..MaxQuota :
          Is(NewStream(0, w, q)) \/ Is(NewUnbufferedStream(0, w, q))
    /\ Unused

NextLimited ==
    \/ \E n \in 0..MaxLen : DoWrite(Arg(n))
    \/ \E n \in 0..MaxLen : DoWriteRaw(Arg(n))
    \/ DoWriteByte(Arg(1))
    \/ DoWriteTwoBytes(Arg(2))
    \/ DoWriteThreeBytes(Arg(3))
    \/ DoWriteFourBytes(Arg(4))
    \/ DoWriteFiveBytes(Arg(5))
    \/ DoFlush
    \/ SetError(ErrEncoder)
    \/ DoWriteEmptyObject
    \/ \E n \in 1..MaxQuota : WriterRecovers(n)

SpecLimited == InitLimited /\ [][NextLimited]_vars

(***************************************************************************)
(* The bulk writes and Flush on a bufferedStream bound to a limited writer *)
(* or to none.                                                             *)
(***************************************************************************)
InitBulk ==
    /\ \/ \E w \in {v \in Writers : ~Reliable(v)}, q \in 0..MaxQuota :
             Is(NewStream(0, w, q))
       \/ Is(NewStream(0, Nil, 0))
    /\ Unused

NextBulk ==
    \/ \E n \in 0..MaxLen : DoWrite(Arg(n))
    \/ \E n \in 0..MaxLen : DoWriteRaw(Arg(n))
    \/ DoFlush
    \/ \E n \in 1..MaxQuota : WriterRecovers(n)

SpecBulk == InitBulk /\ [][NextBulk]_vars

(***************************************************************************)
(* The same, with the reuse of a Stream: Reset and SetBuffer.              *)
(***************************************************************************)
NextReuse ==
    \/ Next
    \/ \E w \in Writers \cup {Nil} : DoReset(w)
    \/ \E b \in Buffers : DoSetBuffer(b)

SpecReuse == Init /\ [][NextReuse]_vars


(***************************************************************************)
(* Properties of the sinks and of Flush.                                   *)
(***************************************************************************)
\* The bytes issued by the last operation.
Emitted == Drop(issued, last.pre)

\* The operations that hand bytes to the sink's write methods.
WriteOps == {"Write", "WriteRaw", "writeByte", "writeTwoBytes", "writeThreeBytes",
             "writeFourBytes", "writeFiveBytes"}

\* C4: on either sink, with a writer that may accept only a part of a write
\* and fail, what the bound writer has accepted is at every moment a prefix
\* of what has been issued: nothing is lost in the middle, repeated or out
\* of order.
C4_AcceptedIsPrefixOfIssued == out # Nil => IsPrefix(recv[out], issued)

\* C5: a buffered sink with no writer keeps every byte written, in order:
\* Buffer() is the bytes issued so far, also after a Flush.
C5_CaptureKeepsAll ==
    (kind = "buffered" /\ out = Nil) => (Buffer(Cur) = issued /\ calls = <<>>)

C5_Witness ==
    /\ kind = "buffered" /\ out = Nil
    /\ last.op = "Flush" /\ sink = <<"flush">>
    /\ Len(Buffer(Cur)) > 2

\* C6: a buffered sink bound to a writer that accepts everything is empty
\* after every bulk Write, and the writer has received every byte issued.
C6_WriteFlushesAll ==
    (kind = "buffered" /\ out # Nil /\ Reliable(out) /\ last.op = "Write")
        => /\ Buffer(Cur) = <<>>
           /\ Buffered(Cur) = 0
           /\ recv[out] = issued

C6_Witness ==
    /\ kind = "buffered" /\ out # Nil /\ Reliable(out) /\ last.op = "Write"
    /\ Len(calls) = 1
    /\ Len(Emitted) > 0
    /\ Len(calls[1].p) > Len(Emitted)
    /\ buf = <<>>

C8_FlushLatched ==
    [][(Error # Nil /\ last'.op = "Flush")
          => /\ err' = Error
             /\ sink' = <<>>
             /\ calls' = <<>>
             /\ buf' = buf
             /\ recv' = recv
             /\ Error' = Error]_vars

C8_Witness ==
    /\ last.op = "Flush" /\ Error # Nil /\ err = Error
    /\ kind = "buffered" /\ out # Nil /\ buf # <<>>

\* C9: a flush of a buffered sink whose buffer is empty does nothing and
\* succeeds: no call on the writer, no error, the buffer still empty.
C9_EmptyFlushIsNoOp ==
    [][(kind = "buffered" /\ buf = <<>> /\ Error = Nil /\ last'.op = "Flush")
          => /\ calls' = <<>>
             /\ err' = Nil
             /\ buf' = <<>>]_vars


(***************************************************************************)
(* The facade's tokens written to two Streams at once: the Stream of the   *)
(* state and a second one (twin) from NewUnbufferedStream, with the same   *)
(* step and a writer of its own of the same kind.  The caller either keeps *)
(* to a well-formed nesting, of at most MaxTokens tokens, or writes any    *)
(* tokens in any order (free), at most MaxPair of them.                    *)
(***************************************************************************)
Free == proto.phase = "free"

TwinEntry == Begin(twin)

\* One token: y and t are the two Streams after it, pr the protocol state
\* after it in a well-formed nesting.
Token(y, t, name, arg, pr) ==
    /\ ncalls < (IF Free THEN MaxPair ELSE MaxTokens)
    /\ Call(y, name, arg, Nil)
    /\ twin' = t
    /\ proto' = [(IF Free THEN proto ELSE pr) EXCEPT
                    !.trace = Append(@, <<name, arg>>)]
    /\ ncalls' = ncalls + 1
    /\ UNCHANGED reused

TokWriteNil ==
    /\ Free \/ CanValue(proto)
    /\ Token(WriteNil(Entry), WriteNil(TwinEntry), "WriteNil", <<>>,
             AfterValue(proto))

TokWriteBool(val) ==
    /\ Free \/ CanValue(proto)
    /\ Token(WriteBool(Entry, val), WriteBool(TwinEntry, val), "WriteBool",
             <<IF val THEN 1 ELSE 0>>, AfterValue(proto))

TokWriteInt(val) ==
    /\ Free \/ CanValue(proto)
    /\ Token(WriteInt(Entry, val), WriteInt(TwinEntry, val), "WriteInt", val,
             AfterValue(proto))

TokWriteEmptyObject ==
    /\ Free \/ CanValue(proto)
    /\ Token(WriteEmptyObject(Entry), WriteEmptyObject(TwinEntry),
             "WriteEmptyObject", <<>>, AfterValue(proto))

TokWriteEmptyArray ==
    /\ Free \/ CanValue(proto)
    /\ Token(WriteEmptyArray(Entry), WriteEmptyArray(TwinEntry),
             "WriteEmptyArray", <<>>, AfterValue(proto))

TokWriteObjectStart ==
    /\ Free \/ CanValue(proto)
    /\ Token(WriteObjectStart(Entry), WriteObjectStart(TwinEntry),
             "WriteObjectStart", <<>>, AfterStart(proto, "obj"))

TokWriteArrayStart ==
    /\ Free \/ CanValue(proto)
    /\ Token(WriteArrayStart(Entry), WriteArrayStart(TwinEntry),
             "WriteArrayStart", <<>>, AfterStart(proto, "arr"))

TokWriteObjectField(field) ==
    /\ Free \/ CanField(proto)
    /\ Token(WriteObjectField(Entry, field), WriteObjectField(TwinEntry, field),
             "WriteObjectField", field, AfterField(proto))

TokWriteMore ==
    /\ Free \/ CanMore(proto)
    /\ Token(WriteMore(Entry), WriteMore(TwinEntry), "WriteMore", <<>>,
             AfterMore(proto))

TokWriteObjectEnd ==
    /\ Free \/ CanEnd(proto, "obj")
    /\ Token(WriteObjectEnd(Entry), WriteObjectEnd(TwinEntry),
             "WriteObjectEnd", <<>>, AfterEnd(proto))

TokWriteArrayEnd ==
    /\ Free \/ CanEnd(proto, "arr")
    /\ Token(WriteArrayEnd(Entry), WriteArrayEnd(TwinEntry),
             "WriteArrayEnd", <<>>, AfterEnd(proto))

\* Flush of both Streams.
TokFlush ==
    /\ Call(Stream_Flush(Entry), "Flush", <<>>, Nil)
    /\ twin' = Stream_Flush(TwinEntry)
    /\ UNCHANGED <<reused, ncalls, proto>>

\* The integers written as tokens: 1 and -1234.
IntTokens == {FromNat(1, 8), Neg(FromNat(1234, 8))}

NextNest ==
    \/ TokWriteNil
    \/ \E val \in BOOLEAN : TokWriteBool(val)
    \/ \E val \in IntTokens : TokWriteInt(val)
    \/ TokWriteEmptyObject
    \/ TokWriteEmptyArray
    \/ TokWriteObjectStart
    \/ TokWriteArrayStart
    \/ \E field \in FieldNames : TokWriteObjectField(field)
    \/ TokWriteMore
    \/ TokWriteObjectEnd
    \/ TokWriteArrayEnd

\* A well-formed nesting, with every step up to MaxStep, on either sink.
InitNest ==
    /\ \E s \in 0..MaxStep, w \in {v \in Writers : Reliable(v)} \cup {Nil} :
          /\ Is(NewStream(s, w, 0)) \/ Is(NewUnbufferedStream(s, w, 0))
          /\ twin = NewUnbufferedStream(s, w, 0)
    /\ last = NoLast /\ reused = 0 /\ ncalls = 0 /\ proto = ProtoInit

SpecNest == InitNest /\ [][NextNest]_vars

\* Any tokens and Flush in any order, written to a Stream from NewStream and
\* to its twin, each bound to a writer that accepts every byte; the step is
\* 0 or MaxStep.
InitPair ==
    /\ \E s \in {0, MaxStep}, w \in {v \in Writers : Reliable(v)} :
          Is(NewStream(s, w, 0)) /\ twin = NewUnbufferedStream(s, w, 0)
    /\ last = NoLast /\ reused = 0 /\ ncalls = 0
    /\ proto = [ProtoInit EXCEPT !.phase = "free"]

NextPair == NextNest \/ TokFlush

SpecPair == InitPair /\ [][NextPair]_vars

\* The tokens in a well-formed nesting and in any order, without Flush.
InitTokens == InitNest \/ InitPair

SpecTokens == InitTokens /\ [][NextNest]_vars

(***************************************************************************)
(* Every kind of operation on a Stream that starts on a limited writer and *)
(* is reused, in short behaviours: writes start while fewer than MaxShort  *)
(* bytes have been issued.                                                 *)
(***************************************************************************)
Short == Len(issued) < MaxShort

NextShort ==
    \/ \E n \in 0..MaxLen : Short /\ DoWrite(Arg(n))
    \/ \E n \in 0..MaxLen : Short /\ DoWriteRaw(Arg(n))
    \/ Short /\ DoWriteByte(Arg(1))
    \/ Short /\ DoWriteTwoBytes(Arg(2))
    \/ Short /\ DoWriteThreeBytes(Arg(3))
    \/ Short /\ DoWriteFourBytes(Arg(4))
    \/ Short /\ DoWriteFiveBytes(Arg(5))
    \/ Short /\ DoWriteNil
    \/ Short /\ DoWriteEmptyObject
    \/ \E v \in {Neg(FromNat(3, 1))} : Short /\ DoWriteInt8(v) /\ InBound
    \/ DoFlush
    \/ SetError(ErrEncoder)
    \/ \E w \in Writers \cup {Nil} : DoReset(w)
    \/ \E b \in Buffers : DoSetBuffer(b)
    \/ \E n \in 1..MaxQuota : WriterRecovers(n)

SpecShort == InitLimited /\ [][NextShort]_vars

(***************************************************************************)
(* The integer encoders, each on one integer written to a new Stream.      *)
(***************************************************************************)
\* 10^k modulo 2^(8n).
RECURSIVE Pow10(_, _)
Pow10(k, n) == IF k = 0 THEN FromNat(1, n) ELSE Mul(Pow10(k - 1, n), 10)

\* The largest and the smallest signed value of n bytes, as bit patterns.
MaxSigned(n) == [i \in 1..n |-> IF i = n THEN 127 ELSE 255]
MinSigned(n) == [i \in 1..n |-> IF i = n THEN 128 ELSE 0]

\* The edges of the encoders' branches in n bytes: the powers of ten and
\* their neighbours, the extreme values and their neighbours.
Edges(n) ==
    LET around(v) == {Sub(v, FromNat(1, n)), v, AddSmall(v, 1)}
    IN  UNION {around(Pow10(k, n)) : k \in 0..19}
        \cup around(MaxSigned(n)) \cup around(MinSigned(n))
        \cup around(Zero(n))

\* The integers of n bytes the specification writes: the samples, the edges,
\* and the negations of both.
Inputs(n) ==
    LET pos == {FromNat(k, n) : k \in 0..MaxSample} \cup Edges(n)
    IN  pos \cup {Neg(v) : v \in pos}

\* The Stream is new: nothing has been written to it.
IsNew == last.op = "new"

NextInt ==
    \/ IsNew /\ \E v \in Inputs(1) : DoWriteUint8(v)
    \/ IsNew /\ \E v \in Inputs(1) : DoWriteInt8(v)
    \/ IsNew /\ \E v \in Inputs(2) : DoWriteUint16(v)
    \/ IsNew /\ \E v \in Inputs(2) : DoWriteInt16(v)
    \/ IsNew /\ \E v \in Inputs(4) : DoWriteUint32(v)
    \/ IsNew /\ \E v \in Inputs(4) : DoWriteInt32(v)
    \/ IsNew /\ \E v \in Inputs(8) : DoWriteUint64(v)
    \/ IsNew /\ \E v \in Inputs(8) : DoWriteInt64(v)

SpecInt == Init /\ [][NextInt]_vars

\* The canonical decimal digits of the unsigned value v, in ASCII: the
\* remainders of the repeated division by ten, the last one first.
RECURSIVE Dec(_)
Dec(v) ==
    IF IsZero(Div(v, 10))
    THEN <<48 + Mod(v, 10)>>
    ELSE Dec(Div(v, 10)) \o <<48 + Mod(v, 10)>>

\* |v| of a signed v, computed one byte wider so that no value overflows.
Abs(v) == IF IsNegative(v) THEN Neg(v \o <<255>>) ELSE v

UnsignedOps == {"WriteUint8", "WriteUint16", "WriteUint32", "WriteUint64"}
SignedOps == {"WriteInt8", "WriteInt16", "WriteInt32", "WriteInt64"}

\* C1: WriteUint8/16/32/64 of v appends exactly the canonical decimal digits
\* of v: no leading zero, "0" for 0, no other byte.
C1_UnsignedIsDecimal == last.op \in UnsignedOps => Emitted = Dec(last.arg)

\* C2: WriteInt8/16/32/64 of v appends "-" and the canonical decimal digits
\* of |v| when v < 0, and the canonical decimal digits of v otherwise.
C2_SignedIsDecimal ==
    last.op \in SignedOps =>
        Emitted = (IF IsNegative(last.arg) THEN <<45>> ELSE <<>>)
                  \o Dec(Abs(last.arg))

(***************************************************************************)
(* Properties of the facade's indentation.                                 *)
(***************************************************************************)
Opening == {123, 91}
Closing == {125, 93}

\* The positions after i of the bytes of s that are not in skip.
Beyond(s, i, skip) == {j \in (i + 1)..Len(s) : s[j] \notin skip}

Least(S) == CHOOSE j \in S : \A k \in S : j <= k

\* The number of spaces that follow position i of s directly.
SpacesAfter(s, i) ==
    IF Beyond(s, i, {32}) = {} THEN Len(s) - i
    ELSE Least(Beyond(s, i, {32})) - i - 1

\* The nesting level of the token at position j of s: the containers open
\* before it, a closing token being at the level of its opening token.
Level(s, j) ==
    Cardinality({i \in 1..(j - 1) : s[i] \in Opening})
    - Cardinality({i \in 1..(j - 1) : s[i] \in Closing})
    - (IF s[j] \in Closing THEN 1 ELSE 0)

\* Every newline of s that a token follows is followed by exactly
\* st * (nesting level of that token) spaces.
Indented(s, st) ==
    \A i \in 1..Len(s) :
        (s[i] = 10 /\ Beyond(s, i, {32, 10}) # {})
            => SpacesAfter(s, i) = st * Level(s, Least(Beyond(s, i, {32, 10})))

\* ObjectStart, field "a", value 1, ObjectEnd, and what it yields with the
\* steps 2 and 0.
ExampleTrace ==
    << <<"WriteObjectStart", <<>>>>, <<"WriteObjectField", <<97>>>>,
       <<"WriteInt", FromNat(1, 8)>>, <<"WriteObjectEnd", <<>>>> >>

ExampleYields ==
    proto.trace = ExampleTrace =>
        /\ step = 2 => issued = <<123, 10, 32, 32, 34, 97, 34, 58, 32, 49, 10, 125>>
        /\ step = 0 => issued = <<123, 34, 97, 34, 58, 49, 125>>

C10_SinksDeliverTheSame ==
    last.op = "Flush" => recv[out] = twin.recv[twin.out]

C10_Witness ==
    /\ last.op = "Flush" /\ kind = "buffered" /\ twin.kind = "unbuffered"
    /\ ncalls = MaxPair
    /\ Len(calls) = 1 /\ calls[1].p = issued
    /\ Len(recv[out]) >= 8
    /\ \E i \in 1..Len(issued) : issued[i] = 10

(***************************************************************************)
(* Further properties of the sinks.                                        *)
(***************************************************************************)
\* C11: on either sink, from the same state and with the same writer,
\* WriteRaw(s) and Write(bytes of s) leave the same buffer and deliver the
\* same bytes to the writers.
C11_WriteRawIsWrite ==
    \A n \in 0..MaxLen :
        LET a == WriteRaw(Entry, Arg(n))
            b == Write(Entry, Arg(n))
        IN  a.buf = b.buf /\ a.recv = b.recv

\* C12: after Reset(w), in whatever state the Stream was, the sink is bound
\* to w, nothing is buffered and the Error field is nil.
C12_ResetClears ==
    last.op = "Reset" =>
        /\ out = last.w
        /\ Buffered(Cur) = 0
        /\ Error = Nil

\* C13: a Write(p) that returns a count below len(p) returns an error, on
\* either sink, bound or not.
C13_ShortWriteHasError ==
    (last.op = "Write" /\ nn < Len(last.arg)) => err # Nil

(***************************************************************************)
(* Properties of the depth and of the tokens.                              *)
(***************************************************************************)
Starts == {"WriteObjectStart", "WriteArrayStart"}
Ends == {"WriteObjectEnd", "WriteArrayEnd"}

\* The number of tokens written so far whose name is in S.
Written(S) == Cardinality({i \in 1..Len(proto.trace) : proto.trace[i][1] \in S})

\* C14: the depth is step * (starts - ends written so far), whatever the
\* tokens; in a well-formed nesting it is never negative, and it is 0 before
\* the first start and after the last end.
C14_DepthTracksNesting ==
    /\ indention = step * (Written(Starts) - Written(Ends))
    /\ ~Free => /\ indention >= 0
                /\ proto.stack = <<>> => indention = 0

C14_Witness ==
    /\ ~Free /\ step = 2 /\ indention = 2
    /\ Written(Starts) = 2 /\ Written(Ends) = 1
    /\ last.op = "WriteArrayEnd"

C16_EmptyContainersAreOneWrite ==
    last.op \in {"WriteEmptyObject", "WriteEmptyArray"} =>
        /\ sink = <<"writeTwoBytes">>
        /\ Emitted = IF last.op = "WriteEmptyObject" THEN <<123, 125>>
                     ELSE <<91, 93>>
        /\ (kind = "unbuffered" /\ out # Nil) =>
               (Len(calls) = 1 /\ Len(calls[1].p) = 2)
        /\ indention = step * (Written(Starts) - Written(Ends))

\* C17: a Write(p) on a bufferedStream with a writer hands the writer the
\* buffer followed by p in one call; the writer accepts the first k bytes;
\* the buffer is then the rest, the count returned is k and the error is the
\* writer's.  With no writer the count is len(p), the error nil, and the
\* buffer holds all the bytes.
C17_WriteKeepsUnaccepted ==
    [][(kind = "buffered" /\ last'.op = "Write") =>
          LET all == buf \o last'.arg
          IN  IF out # Nil
              THEN /\ calls' = <<[op |-> "Write", p |-> all]>>
                   /\ nn' \in 0..Len(all)
                   /\ recv'[out] = recv[out] \o Take(all, nn')
                   /\ buf' = Drop(all, nn')
                   /\ err' = IF ~Reliable(out) /\ (nn' < Len(all) \/ quota[out] = 0)
                             THEN ErrWriter ELSE Nil
              ELSE /\ nn' = Len(last'.arg) /\ err' = Nil
                   /\ buf' = all
                   /\ calls' = <<>> /\ recv' = recv]_vars

C17_Witness ==
    /\ kind = "buffered" /\ out # Nil /\ last.op = "Write"
    /\ nn > Len(last.arg)
    /\ buf # <<>>
    /\ err = ErrWriter

\* C18: no operation of the Stream or of its sink changes the Error field;
\* only an encoder that stores its failure there does.  A failure of the
\* writer in a Write, a Flush or a fixed write leaves the field as it was.
C18_ErrorOnlySetByEncoders ==
    [][last'.op # "SetError" => Error' = Error]_vars

C18_Witness ==
    /\ Error = Nil /\ err = ErrWriter
    /\ last.op = "Flush"
    /\ kind = "buffered" /\ buf # <<>>

\* C19: a Flush of a bufferedStream with a writer and a non-empty buffer
\* either succeeds, and then the buffer is empty and the writer has accepted
\* all the bytes it held, or fails, and then the buffer holds exactly the
\* bytes the writer has not accepted.
C19_FlushDrainsOrKeepsRest ==
    [][(/\ kind = "buffered" /\ out # Nil /\ buf # <<>> /\ Error = Nil
        /\ last'.op = "Flush")
          => IF err' = Nil
             THEN /\ buf' = <<>>
                  /\ recv'[out] = recv[out] \o buf
             ELSE \E k \in 0..Len(buf) :
                     /\ recv'[out] = recv[out] \o Take(buf, k)
                     /\ buf' = Drop(buf, k)]_vars

(***************************************************************************)
(* Properties of the signed encoders' negation.                            *)
(***************************************************************************)
\* C20: for a negative nval of 1, 2, 4 or 8 bytes, the negation of nval in
\* its own width, read as unsigned, is |nval|; the smallest value negates to
\* itself, which read as unsigned is 2^(w-1); in 8 bits the magnitude is an
\* index of the digit table, and WriteInt8 and WriteInt16 emit "-" and the
\* digits of the magnitude.
C20_NegationIsMagnitude ==
    (last.op \in SignedOps /\ IsNegative(last.arg)) =>
        LET v == last.arg
            val == Neg(v)
        IN  /\ val \o <<0>> = Abs(v)
            /\ v = MinSigned(Len(v)) => val = v
            /\ last.op = "WriteInt8" =>
                   /\ Small(val) \in 1..128
                   /\ Small(val) \in DOMAIN digits
            /\ last.op \in {"WriteInt8", "WriteInt16"} =>
                   Emitted = <<45>> \o Dec(Abs(v))

C20_Witness ==
    /\ last.op = "WriteInt8" /\ last.arg = MinSigned(1)
    /\ Emitted = <<45, 49, 50, 56>>
============================================================================
